---- MODULE Spec2Model ----
(***************************************************************************)
(* fetchall: main() of fetchall/fetchall.go and fetcher.FetchConcurrent.   *)
(* main runs three phases over os.Args[1:]: a FetchWithBuffer loop, a      *)
(* Fetch loop, and a fan-out of one FetchConcurrent goroutine per URL      *)
(* whose results are collected over one unbuffered channel.                *)
(***************************************************************************)
EXTENDS Naturals, Integers, Sequences, FiniteSets

VARIABLES
    osArgs,     \* os.Args: the program name followed by the URL arguments
    clock,      \* logical wall clock, in ticks
    mainpc,     \* position of main
    phase,      \* 1 = FetchWithBuffer loop, 2 = Fetch loop, 3 = FetchConcurrent
    idx,        \* position of the range loop main is in
    start,      \* main's variable start
    inflight,   \* calls of FetchWithBuffer / Fetch that have not returned
    units,      \* the FetchConcurrent goroutines, in launch order
    nrecv,      \* number of receives main has completed on ch
    sendOrder,  \* the sends completed on ch, in order: who sent what
    out         \* lines written to stdout

vars == <<osArgs, clock, mainpc, phase, idx, start, inflight, units, 
          nrecv, sendOrder, out>>

\* ---------------------------------------------------------------- bounds
MaxArgs == 2
MaxClock == 2
MaxBytes == 1

UrlNames == {"a", "b"}
GetErrors == {"dial"}
ReadErrors == {"reset"}
NoMsg == [kind |-> "none"]

SeqsUpTo(S, n) == UNION {[1..k -> S] : k \in 0..n}

\* the URL argument lists: up to MaxArgs URLs, duplicates allowed. The program
\* never looks into a URL, so the first one is "a" without loss of generality
ArgLists == {s \in SeqsUpTo(UrlNames, MaxArgs) : s = <<>> \/ s[1] = "a"}

\* ------------------------------------------------------- pure functions
\* mutant: the range runs over os.Args, program name included
UrlsWithProgramName == osArgs

\* os.Args[1:]
Urls == SubSeq(osArgs, 2, Len(osArgs))

\* time.Now()
Now == clock

\* time.Since(t), in ticks
Since(t) == clock - t

\* Seconds() of a duration of d ticks, in milliseconds (a tick is 6 ms)
Millis(d) == d * 6

\* "%.2f" of Seconds(): the duration rounded to hundredths of a second
Fmt2f(d) == (Millis(d) + 5) \div 10

\* fmt.Sprint(err)
FmtGetErr(err) == [kind |-> "geterr", text |-> err]

\* fmt.Sprintf("while reading %s: %v", url, err)
FmtReadErr(url, err) == [kind |-> "readerr", url |-> url, text |-> err]

\* fmt.Sprintf("%.2fs  %7d  %s", secs, nbytes, url)
FmtOk(d, nbytes, url) ==
    [kind |-> "ok", secs |-> Fmt2f(d), nbytes |-> nbytes, url |-> url]

\* a line of stdout; ph tags the phase that wrote it
Line(kind, ph, body) == [kind |-> kind, phase |-> ph, body |-> body]

\* mutant: the timer is restarted just before the summary is printed
SummaryLinesRestarted(ph) ==
    IF ph < 3
    THEN <<Line("summary", ph, Fmt2f(Since(Now))), Line("blank", ph, 0)>>
    ELSE <<Line("summary", ph, Fmt2f(Since(Now)))>>

\* mutant: the summary is printed twice
SummaryLinesTwice(ph) ==
    <<Line("summary", ph, Fmt2f(Since(start))), Line("summary", ph, Fmt2f(Since(start)))>>

\* fmt.Printf("%.2fs elapsed\n", time.Since(start).Seconds()); fmt.Println()
SummaryLines(ph) ==
    IF ph < 3
    THEN <<Line("summary", ph, Fmt2f(Since(start))), Line("blank", ph, 0)>>
    ELSE <<Line("summary", ph, Fmt2f(Since(start)))>>

\* ------------------------------------------------------------------ Init
Init ==
    /\ osArgs \in {<<"fetchall">> \o s : s \in ArgLists}
    /\ clock = 0
    /\ mainpc = "header"
    /\ phase = 1
    /\ idx = 0
    /\ start = 0
    /\ inflight = {}
    /\ units = <<>>
    /\ nrecv = 0
    /\ sendOrder = <<>>
    /\ out = <<>>

\* the clock advances on its own
Tick ==
    /\ clock < MaxClock
    /\ clock' = clock + 1
    /\ UNCHANGED <<osArgs, mainpc, phase, idx, start, inflight, units, 
                   nrecv, sendOrder, out>>

\* ------------------------------------------------- main, phases 1 and 2
\* fmt.Println("...: Fetching URLs..."); start := time.Now()
SeqHeader ==
    /\ mainpc = "header" /\ phase \in {1, 2}
    /\ out' = Append(out, Line("header", phase, 0))
    /\ start' = Now
    /\ idx' = 1
    /\ mainpc' = "loop"
    /\ UNCHANGED <<osArgs, clock, phase, inflight, units, nrecv, sendOrder>>

\* mutant: the call does not wait (go fetcher.Fetch(url))
SeqCallNoWait(i) == [pc |-> "loop", idx |-> i + 1]

\* where main is after calling the fetch of Urls[i]: blocked until it returns
SeqCallNext(i) == [pc |-> "wait", idx |-> i]

\* for _, url := range os.Args[1:] { fetcher.FetchWithBuffer(url) } (or Fetch)
SeqCall ==
    /\ mainpc = "loop" /\ phase \in {1, 2}
    /\ idx <= Len(Urls)
    /\ inflight' = inflight \cup {[phase |-> phase, idx |-> idx, url |-> Urls[idx]]}
    /\ mainpc' = SeqCallNext(idx).pc
    /\ idx' = SeqCallNext(idx).idx
    /\ UNCHANGED <<osArgs, clock, phase, start, units, nrecv, sendOrder, out>>

\* the range loop is exhausted
SeqLoopExit ==
    /\ mainpc = "loop" /\ phase \in {1, 2}
    /\ idx > Len(Urls)
    /\ mainpc' = "summary"
    /\ UNCHANGED <<osArgs, clock, phase, idx, start, inflight, units, 
                   nrecv, sendOrder, out>>

\* the fetch of one URL completes: it prints its line and returns to its caller
FetchReturn(f) ==
    /\ f \in inflight
    /\ inflight' = inflight \ {f}
    /\ out' = Append(out, Line("result", f.phase,
                               [idx |-> f.idx, url |-> f.url]))
    /\ IF mainpc = "wait" /\ phase = f.phase /\ idx = f.idx
       THEN mainpc' = "loop" /\ idx' = idx + 1
       ELSE UNCHANGED <<mainpc, idx>>
    /\ UNCHANGED <<osArgs, clock, phase, start, units, nrecv, sendOrder>>

\* fmt.Printf("%.2fs elapsed\n", ...); fmt.Println()
SeqSummary ==
    /\ mainpc = "summary" /\ phase \in {1, 2}
    /\ out' = out \o SummaryLines(phase)
    /\ phase' = phase + 1
    /\ mainpc' = "header"
    /\ UNCHANGED <<osArgs, clock, idx, start, inflight, units, nrecv, sendOrder>>

\* ---------------------------------------------------------- main, phase 3
\* mutant: the range loop stops one iteration early
RangePcShort(i, body, exit) == IF i < Len(SubSeq(osArgs, 2, Len(osArgs))) THEN body ELSE exit

\* mutant: the receive sits inside the launch loop, so main goes to receive
\* after each launch
RangePcSerial(i, body, exit) ==
    IF i <= Len(Urls) /\ ~(body = "launch" /\ i > 1) THEN body ELSE exit

\* mutant: the receive loop gives up one receive early
RangePcRecvShort(i, body, exit) ==
    IF (body = "recv" /\ i < Len(Urls)) \/ (body # "recv" /\ i <= Len(Urls))
    THEN body ELSE exit

\* the pc of a range loop over os.Args[1:] at position i
RangePc(i, body, exit) == IF i <= Len(Urls) THEN body ELSE exit

\* fmt.Println(...); start = time.Now(); ch := make(chan string)
ConcHeader ==
    /\ mainpc = "header" /\ phase = 3
    /\ out' = Append(out, Line("header", 3, 0))
    /\ start' = Now
    /\ idx' = 1
    /\ mainpc' = RangePc(1, "launch", "summary")
    /\ UNCHANGED <<osArgs, clock, phase, inflight, units, nrecv, sendOrder>>

\* mutant: the goroutine reads the loop variable late and sees the last URL
NewUnitLastUrl(url) ==
    [pc |-> "start", url |-> Urls[Len(Urls)], start |-> 0, body |-> "none",
     err |-> "nil", msg |-> NoMsg, sent |-> 0, outcome |-> "none"]

\* a goroutine just created by the go statement
NewUnit(url) ==
    [pc |-> "start", url |-> url, start |-> 0, body |-> "none",
     err |-> "nil", msg |-> NoMsg, sent |-> 0, outcome |-> "none"]

\* for _, url := range os.Args[1:] { go fetcher.FetchConcurrent(url, ch) }
Launch ==
    /\ mainpc = "launch" /\ phase = 3
    /\ units' = Append(units, NewUnit(Urls[idx]))
    /\ idx' = IF idx + 1 <= Len(Urls) THEN idx + 1 ELSE 1
    /\ mainpc' = RangePc(idx + 1, "launch", "recv")
    /\ UNCHANGED <<osArgs, clock, phase, start, inflight, nrecv, sendOrder, out>>

\* mutant: the return after the send of the read error is missing
AfterSendFallsThrough(pc) == IF pc = "send_readerr" THEN "send_ok" ELSE "done"

\* where a unit is after its send on ch completed: all three sends are followed
\* by the function's return
AfterSend(pc) == "done"

\* a unit whose send completed: at pc' = "done" it has returned and its locals
\* are gone; the response body, the count of its sends and its outcome remain
Sent(unit) ==
    IF AfterSend(unit.pc) = "done"
    THEN [NewUnit(unit.url) EXCEPT !.pc = "done", !.body = unit.body,
                                   !.sent = unit.sent + 1, !.outcome = unit.outcome]
    ELSE [unit EXCEPT !.pc = AfterSend(unit.pc), !.sent = unit.sent + 1]

\* mutant: the line lands ahead of what was printed before
PrintlnFirst(o, v) == <<Line("result", 3, v)>> \o o

\* stdout after fmt.Println(v)
Println(o, v) == Append(o, Line("result", 3, v))

\* for range os.Args[1:] { fmt.Println(<-ch) }: the receive meets the pending
\* send of unit u (ch is unbuffered) and main prints the value it received
Recv(u) ==
    /\ mainpc = "recv" /\ phase = 3
    /\ u \in DOMAIN units
    /\ units[u].pc \in {"send_geterr", "send_readerr", "send_ok"}
    /\ nrecv' = nrecv + 1
    /\ sendOrder' = Append(sendOrder, [unit |-> u, msg |-> units[u].msg])
    /\ units' = [units EXCEPT ![u] = Sent(units[u])]
    /\ out' = Println(out, units[u].msg)
    /\ idx' = idx + 1
    /\ mainpc' = RangePc(idx + 1, "recv", "summary")
    /\ UNCHANGED <<osArgs, clock, phase, start, inflight>>

\* fmt.Printf("%.2fs elapsed\n", ...); main returns
ConcSummary ==
    /\ mainpc = "summary" /\ phase = 3
    /\ out' = out \o SummaryLines(3)
    /\ mainpc' = "done"
    /\ UNCHANGED <<osArgs, clock, phase, idx, start, inflight, units, 
                   nrecv, sendOrder>>

\* ------------------------------------------------------- FetchConcurrent
\* the value of time.Now() a unit stores in its start
UnitStartTime == Now

\* mutant: start is one package-level variable that all the goroutines share
StartTimerShared(us, u) ==
    [v \in DOMAIN us |->
        IF v = u THEN [us[v] EXCEPT !.start = clock, !.pc = "get"]
        ELSE IF us[v].pc \in {"get", "copy"} THEN [us[v] EXCEPT !.start = clock]
        ELSE us[v]]

\* start := time.Now() assigns the local variable start of unit u alone
StartTimer(us, u) == [us EXCEPT ![u].start = UnitStartTime, ![u].pc = "get"]

\* start := time.Now(); http.Get(url) is issued
UnitStart(u) ==
    /\ u \in DOMAIN units /\ units[u].pc = "start"
    /\ units' = StartTimer(units, u)
    /\ UNCHANGED <<osArgs, clock, mainpc, phase, idx, start, inflight, 
                   nrecv, sendOrder, out>>

\* mutant: the GET error path returns without sending
OnGetErrorNoSend(unit, err) == [unit EXCEPT !.err = err, !.pc = "done"]

\* if err != nil { ch <- fmt.Sprint(err); return }: the unit reaches its send.
\* start is not read on this path any more and is dropped
OnGetError(unit, err) ==
    [unit EXCEPT !.err = err, !.msg = FmtGetErr(err), !.pc = "send_geterr",
                 !.start = 0]

\* resp, err := http.Get(url) returns
GetReturn(u, err) ==
    /\ u \in DOMAIN units /\ units[u].pc = "get"
    /\ units' = IF err # "nil"
                THEN [units EXCEPT ![u] = OnGetError([@ EXCEPT !.outcome = "geterr"], err)]
                ELSE [units EXCEPT ![u].body = "open", ![u].pc = "copy"]
    /\ UNCHANGED <<osArgs, clock, mainpc, phase, idx, start, inflight, 
                   nrecv, sendOrder, out>>

\* mutant: Close comes after the error return, so a failed read leaks the body
BodyLeakedOnError(err) == IF err # "nil" THEN "open" ELSE "closed"

\* the state of the response body after the statement that follows io.Copy
BodyAfterCopy(err) == "closed"

\* mutant: the read error is never looked at
ReadFailedNever(err) == FALSE

\* the test "if err != nil" that follows resp.Body.Close()
ReadFailed(err) == err # "nil"

\* nbytes, err := io.Copy(ioutil.Discard, resp.Body) returns; resp.Body.Close();
\* if err != nil the unit goes to its send of the read error, else
\* secs := time.Since(start).Seconds() and it goes to its send of the success line.
\* outcome records what io.Copy returned; start is not read after this step and
\* is dropped
CopyReturn(u, n, err) ==
    /\ u \in DOMAIN units /\ units[u].pc = "copy"
    /\ units' = IF ReadFailed(err)
                THEN [units EXCEPT ![u].err = err,
                                   ![u].outcome = IF err # "nil" THEN "readerr" ELSE "ok",
                                   ![u].body = BodyAfterCopy(err),
                                   ![u].msg = FmtReadErr(units[u].url, err),
                                   ![u].start = 0,
                                   ![u].pc = "send_readerr"]
                ELSE [units EXCEPT ![u].err = err,
                                   ![u].outcome = IF err # "nil" THEN "readerr" ELSE "ok",
                                   ![u].body = BodyAfterCopy(err),
                                   ![u].msg = FmtOk(Since(units[u].start), n, units[u].url),
                                   ![u].start = 0,
                                   ![u].pc = "send_ok"]
    /\ UNCHANGED <<osArgs, clock, mainpc, phase, idx, start, inflight, 
                   nrecv, sendOrder, out>>

\* the ids a goroutine can have: its position in the launch order
UnitIds == 1..(MaxArgs + 1)

\* the steps a unit takes on its own
UnitStep(u) ==
    \/ UnitStart(u)
    \/ \E err \in {"nil"} \cup GetErrors : GetReturn(u, err)
    \/ \E n \in 0..MaxBytes, err \in {"nil"} \cup ReadErrors : CopyReturn(u, n, err)

\* the steps of main that wait for nobody
MainStep ==
    \/ SeqHeader
    \/ SeqCall
    \/ SeqLoopExit
    \/ SeqSummary
    \/ ConcHeader
    \/ Launch
    \/ ConcSummary

Next ==
    \/ Tick
    \/ MainStep
    \/ \E f \in inflight : FetchReturn(f)
    \/ \E u \in UnitIds : UnitStep(u)
    \/ \E u \in UnitIds : Recv(u)

Spec == Init /\ [][Next]_vars

\* every step but the clock's
Progress ==
    \/ MainStep
    \/ \E f \in inflight : FetchReturn(f)
    \/ \E u \in UnitIds : UnitStep(u)
    \/ \E u \in UnitIds : Recv(u)

\* The Go scheduler runs a runnable goroutine, a channel operation whose
\* partner is ready completes, and every HTTP GET, body read and sequential
\* fetch is assumed to return: while some step of the program can be taken,
\* one eventually is. The clock is under no obligation.
Fairness == WF_vars(Progress)

FairSpec == Spec /\ Fairness

\* ------------------------------------------------------------ properties
\* N: the number of URL arguments on the command line
NArgs == Len(osArgs) - 1

\* positions in stdout of the lines of one kind written by one phase
LinesAt(kind, ph) == {k \in DOMAIN out : out[k].kind = kind /\ out[k].phase = ph}

IsConcResult(l) == l.kind = "result" /\ l.phase = 3

\* the result lines of the concurrent phase, in the order printed
ConcResults == SelectSeq(out, IsConcResult)

NumSummaries == Cardinality({k \in DOMAIN out : out[k].kind = "summary"})

NumResults == Cardinality({k \in DOMAIN out : out[k].kind = "result"})

Outcomes == {units[u].outcome : u \in DOMAIN units}

\* C1: in the concurrent phase main never receives more than N times, prints
\* one result line per receive, and the phase's summary line is in stdout only
\* once exactly N receives are done and exactly N result lines precede it.
C1_ExactlyNReceives ==
    /\ nrecv <= NArgs
    /\ Len(ConcResults) = nrecv
    /\ \A s \in LinesAt("summary", 3) :
         /\ nrecv = NArgs
         /\ Cardinality(LinesAt("result", 3)) = NArgs
         /\ \A k \in LinesAt("result", 3) : k < s

C1_Witness ==
    /\ mainpc = "done"
    /\ NArgs >= 2
    /\ osArgs[2] = osArgs[3]
    /\ {"geterr", "ok"} \subseteq Outcomes
    /\ nrecv = NArgs

\* C2: a FetchConcurrent unit never sends twice, and it has returned exactly
\* when it has sent once, whichever of the three sends it reached.
C2_OneSendPerUnit ==
    \A u \in DOMAIN units :
        /\ units[u].sent <= 1
        /\ (units[u].pc = "done") <=> (units[u].sent = 1)
        /\ units[u].pc = "done" =>
             \E k \in DOMAIN sendOrder : sendOrder[k].unit = u
        /\ Cardinality({k \in DOMAIN sendOrder : sendOrder[k].unit = u}) = units[u].sent

C2_Witness ==
    \E u, v \in DOMAIN units :
        /\ units[u].pc = "done" /\ units[u].outcome = "geterr" /\ units[u].sent = 1
        /\ units[v].pc = "done" /\ units[v].outcome = "readerr" /\ units[v].sent = 1

AllDone ==
    /\ mainpc = "done"
    /\ nrecv = NArgs
    /\ LinesAt("summary", 3) # {}
    /\ Len(units) = NArgs
    /\ \A u \in DOMAIN units : units[u].pc = "done"

\* C3: under fair scheduling, with every GET and body read returning, main
\* eventually completes its N receives and prints the summary, and every
\* launched unit eventually completes its send and returns.
C3_NoDeadlock == <>AllDone

C3_Witness == AllDone /\ NArgs >= 2

\* C4 as stated: one summary elapsed-time line per invocation.
C4_OneSummaryPerInvocation == mainpc = "done" => NumSummaries = 1

\* C4 amended: each of the three phases prints its summary line exactly once,
\* so an invocation that has run to its end has printed three summary lines.
C4_OneSummaryPerPhase ==
    /\ \A ph \in 1..3 : Cardinality(LinesAt("summary", ph)) <= 1
    /\ \A ph \in 1..3 : (phase > ph \/ mainpc = "done") <=> LinesAt("summary", ph) # {}
    /\ mainpc = "done" => NumSummaries = 3

C4_Witness == mainpc = "done" /\ NArgs >= 1 /\ NumSummaries = 3

\* C5 as stated: with zero URLs, zero result lines and one summary line.
C5_ZeroUrlsOneSummary ==
    (NArgs = 0 /\ mainpc = "done") => (NumResults = 0 /\ NumSummaries = 1)

\* C5 amended: with zero URL arguments no fetch is ever issued, no goroutine is
\* launched, no receive is attempted, main is never blocked, no result line is
\* printed, and main ends having printed one summary line per phase (three).
C5_ZeroUrls ==
    NArgs = 0 =>
        /\ inflight = {}
        /\ units = <<>>
        /\ nrecv = 0
        /\ mainpc \notin {"wait", "recv", "launch"}
        /\ NumResults = 0
        /\ mainpc = "done" => \A ph \in 1..3 : Cardinality(LinesAt("summary", ph)) = 1

C5_Witness == NArgs = 0 /\ mainpc = "done" /\ NumSummaries = 3 /\ NumResults = 0

\* what a unit with the given outcome must have sent
MsgFits(unit, msg) ==
    CASE unit.outcome = "geterr" -> msg.kind = "geterr" /\ msg.text \in GetErrors
      [] unit.outcome = "readerr" ->
            msg.kind = "readerr" /\ msg.text \in ReadErrors /\ msg.url = unit.url
      [] unit.outcome = "ok" -> msg.kind = "ok" /\ msg.url = unit.url
      [] OTHER -> FALSE

\* C6: a failed fetch stops nothing: every unit that has returned, failed or
\* not, has its own result printed (the error text for a failed one, the
\* success line otherwise), and when main ends all N units have returned and
\* N result lines and the summary are printed.
C6_FailureIsolated ==
    /\ \A u \in DOMAIN units :
         units[u].pc = "done" =>
            \E k \in DOMAIN sendOrder :
               /\ sendOrder[k].unit = u
               /\ MsgFits(units[u], sendOrder[k].msg)
               /\ k <= Len(ConcResults)
               /\ ConcResults[k].body = sendOrder[k].msg
    /\ mainpc = "done" =>
         /\ Len(units) = NArgs
         /\ \A u \in DOMAIN units : units[u].pc = "done"
         /\ Len(ConcResults) = NArgs
         /\ Cardinality(LinesAt("summary", 3)) = 1

C6_Witness ==
    /\ mainpc = "done"
    /\ \E u, v \in DOMAIN units :
         /\ units[u].outcome = "readerr"
         /\ units[v].outcome = "ok"
         /\ \E k \in DOMAIN ConcResults :
              sendOrder[k].unit = v /\ ConcResults[k].body.kind = "ok"
         /\ \E k \in DOMAIN ConcResults :
              sendOrder[k].unit = u /\ ConcResults[k].body.kind = "readerr"

\* C7: the k-th result line of the concurrent phase is the message of the k-th
\* send to complete on ch, whatever the order of the arguments.
C7_CompletionOrder ==
    /\ Len(ConcResults) = Len(sendOrder)
    /\ \A k \in DOMAIN sendOrder : ConcResults[k].body = sendOrder[k].msg

\* the output order is the reverse of the argument order
C7_Witness ==
    /\ mainpc = "done"
    /\ NArgs >= 2
    /\ \A k \in DOMAIN sendOrder : sendOrder[k].unit = NArgs + 1 - k
    /\ ConcResults[1].body # ConcResults[2].body

\* the output order is the argument order
C7_InputOrderReached ==
    /\ mainpc = "done"
    /\ NArgs >= 2
    /\ \A k \in DOMAIN sendOrder : sendOrder[k].unit = k

\* C8: a unit that has returned holds no open response body: none if its GET
\* failed, a closed one otherwise; so when main ends no body is open.
C8_BodiesClosed ==
    /\ \A u \in DOMAIN units :
         units[u].pc = "done" =>
            units[u].body = IF units[u].outcome = "geterr" THEN "none" ELSE "closed"
    /\ mainpc = "done" => \A u \in DOMAIN units : units[u].body # "open"

C8_Witness ==
    \E u, v \in DOMAIN units :
        /\ units[u].pc = "done" /\ units[u].outcome = "readerr" /\ units[u].body = "closed"
        /\ units[v].pc = "done" /\ units[v].outcome = "ok" /\ units[v].body = "closed"

\* C9: in phases 1 and 2 at most one fetch is in flight, main is blocked on
\* it, the fetch of URL i is in flight only when the lines of URLs 1..i-1 are
\* printed, lines come in argument order, and the phase's summary follows all
\* N lines with no fetch of the phase left in flight.
C9_OneAtATime ==
    /\ Cardinality(inflight) <= 1
    /\ \A f \in inflight :
         /\ mainpc = "wait" /\ phase = f.phase /\ idx = f.idx
         /\ Cardinality(LinesAt("result", f.phase)) = f.idx - 1
    /\ \A ph \in {1, 2} :
         /\ \A k \in LinesAt("result", ph) :
              /\ out[k].body.idx = 1 + Cardinality({j \in LinesAt("result", ph) : j < k})
              /\ out[k].body.idx <= NArgs
              /\ out[k].body.url = osArgs[out[k].body.idx + 1]
         /\ \A s \in LinesAt("summary", ph) :
              /\ Cardinality(LinesAt("result", ph)) = NArgs
              /\ \A k \in LinesAt("result", ph) : k < s
              /\ \A f \in inflight : f.phase # ph

C9_Witness ==
    /\ NArgs >= 2
    /\ LinesAt("summary", 2) # {}
    /\ Cardinality(LinesAt("result", 1)) = NArgs
    /\ Cardinality(LinesAt("result", 2)) = NArgs

\* C10: on a logical clock, every unit's timer starts no earlier than main's,
\* and the elapsed time on the concurrent phase's summary line is at least
\* the elapsed time on every success line of that phase.
C10_SummaryAtLeastEach ==
    /\ \A u \in DOMAIN units :
         units[u].pc \in {"get", "copy"} => units[u].start >= start
    /\ \A s \in LinesAt("summary", 3) :
         \A k \in LinesAt("result", 3) :
            out[k].body.kind = "ok" => out[s].body >= out[k].body.secs

C10_Witness ==
    /\ mainpc = "done"
    /\ \E k \in LinesAt("result", 3) : out[k].body.kind = "ok" /\ out[k].body.secs >= 1
    /\ \E k \in LinesAt("result", 3) : out[k].body.kind = "ok" /\ out[k].body.secs = 0

\* the network operations of a unit: its GET, then the read of the body
InFlight(u) == units[u].pc \in {"get", "copy"}

\* C11: main has launched all N units before its first receive, and a unit
\* that has not started yet can always start, whatever the other units do.
C11_FanOut ==
    /\ (phase = 3 /\ mainpc \in {"recv", "summary", "done"}) => Len(units) = NArgs
    /\ nrecv > 0 => Len(units) = NArgs
    /\ \A u \in DOMAIN units : units[u].pc = "start" => ENABLED UnitStart(u)

\* all N fetches are in flight at once, before any receive
C11_Witness ==
    /\ NArgs >= 2
    /\ Len(units) = NArgs
    /\ nrecv = 0
    /\ \A u \in DOMAIN units : InFlight(u)

\* a unit that has not reached its send yet
NotYetSending(u) == units[u].pc \in {"start", "get", "copy"}

\* main is at <-ch and no unit has a send pending
MainBlocked ==
    /\ mainpc = "recv"
    /\ \A u \in DOMAIN units : units[u].pc \notin {"send_geterr", "send_readerr", "send_ok"}

\* C12: as long as some unit's GET or body read has not returned, the summary
\* line of the concurrent phase is not printed and main has not ended; and
\* while main waits at its receive with no send pending, no step of main is
\* possible: there is no timeout and no cancellation to take instead.
C12_NoTimeout ==
    /\ (\E u \in DOMAIN units : NotYetSending(u)) =>
          (LinesAt("summary", 3) = {} /\ mainpc \notin {"summary", "done"})
    /\ MainBlocked => ~ENABLED (MainStep \/ \E u \in UnitIds : Recv(u))

\* one fetch is still in flight, every other result is printed, main is blocked
C12_Witness ==
    /\ NArgs >= 2
    /\ MainBlocked
    /\ nrecv = NArgs - 1
    /\ Len(ConcResults) = NArgs - 1
    /\ Cardinality({u \in DOMAIN units : InFlight(u)}) = 1
    /\ ~ENABLED (MainStep \/ \E u \in UnitIds : Recv(u))

\* the steps that do not wait for the network of the concurrent phase
LocalProgress ==
    \/ MainStep
    \/ \E f \in inflight : FetchReturn(f)
    \/ \E u \in UnitIds : UnitStart(u)
    \/ \E u \in UnitIds : Recv(u)

\* as FairSpec, but a GET or a body read of a unit may never return
HangSpec == Spec /\ WF_vars(LocalProgress)

\* C12, the behaviours: if from some point on a unit's GET or body read stays
\* in flight, the summary of the concurrent phase is never printed and main
\* ends up blocked at its receive for good.
C12_StaysBlocked ==
    \A u \in UnitIds :
        <>[](u \in DOMAIN units /\ InFlight(u)) =>
            ([](LinesAt("summary", 3) = {}) /\ <>[]MainBlocked)

\* what main and the other goroutines can see of a step: everything but units
Shared == <<osArgs, clock, mainpc, phase, idx, start, inflight, nrecv, sendOrder, out>>

\* C13: a step of one unit (timer read, GET, body read and close) changes
\* nothing of any other unit and nothing main holds, and the completion of a
\* unit's send changes no other unit; so what a unit sends fits its own URL
\* and its own fetch outcome.
C13_UnitsShareNothing ==
    [][\A u \in UnitIds :
          /\ UnitStep(u) =>
                /\ \A v \in DOMAIN units : v # u => units'[v] = units[v]
                /\ Shared' = Shared
          /\ Recv(u) =>
                \A v \in DOMAIN units : v # u => units'[v] = units[v]]_vars

\* two units under way at once, each with its own start time
C13_Witness ==
    \E u, v \in DOMAIN units :
        /\ units[u].pc = "copy" /\ units[u].body = "open"
        /\ units[v].pc = "get"
        /\ units[u].start # units[v].start

\* C14: the result lines of the concurrent phase and the argument positions
\* correspond one to one: no unit's result is printed twice, every printed
\* line is the message of the unit that sent it, a success line names the URL
\* at that unit's argument position, and when main ends every position 1..N
\* has its line.
C14_OneToOne ==
    /\ Len(ConcResults) = Len(sendOrder)
    /\ \A j, k \in DOMAIN sendOrder :
         sendOrder[j].unit = sendOrder[k].unit => j = k
    /\ \A k \in DOMAIN sendOrder :
         /\ sendOrder[k].unit \in 1..NArgs
         /\ ConcResults[k].body = sendOrder[k].msg
         /\ ConcResults[k].body.kind = "ok" =>
               ConcResults[k].body.url = osArgs[sendOrder[k].unit + 1]
    /\ mainpc = "done" => {sendOrder[k].unit : k \in DOMAIN sendOrder} = 1..NArgs

\* the same URL given twice yields two success lines, one per occurrence
C14_Witness ==
    /\ mainpc = "done"
    /\ NArgs >= 2
    /\ osArgs[2] = osArgs[3]
    /\ ConcResults[1].body.kind = "ok" /\ ConcResults[2].body.kind = "ok"
    /\ ConcResults[1].body.url = ConcResults[2].body.url
    /\ sendOrder[1].unit # sendOrder[2].unit

\* C15: once the summary of the concurrent phase is printed, and so when main
\* returns, all N units have completed their one send and none is fetching or
\* blocked on its send; and a unit exists only after both sequential phases
\* have printed all their lines and their summaries, with no sequential fetch
\* left in flight.
C15_NothingAbandoned ==
    /\ (LinesAt("summary", 3) # {} \/ mainpc = "done") =>
          /\ Len(units) = NArgs
          /\ \A u \in DOMAIN units : units[u].pc = "done" /\ units[u].sent = 1
    /\ units # <<>> =>
          /\ phase = 3
          /\ inflight = {}
          /\ \A ph \in {1, 2} :
                /\ Cardinality(LinesAt("summary", ph)) = 1
                /\ Cardinality(LinesAt("result", ph)) = NArgs

C15_Witness ==
    /\ mainpc = "done"
    /\ NArgs >= 2
    /\ \A u \in DOMAIN units : units[u].pc = "done"
    /\ {"readerr"} \subseteq Outcomes
    /\ Cardinality(LinesAt("result", 1)) = NArgs
    /\ Cardinality(LinesAt("result", 2)) = NArgs

====
